---- MODULE Spec2Model ----
(***************************************************************************)
(* Tiled image cache and asynchronous tile loading engine                  *)
(* (airphoto_viewer::core::TileCache, TileCache::ThreadPool, Tile).        *)
(*                                                                         *)
(* One consumer (GUI) thread calls getTile / clear / setSourceImage /      *)
(* tileCount / memoryUsage / sourceSize; NumWorkers pool threads run the   *)
(* tile jobs.  Pictures are modelled pixel by pixel on a scaled-down grid  *)
(* (tile edge TileSize instead of 256).                                    *)
(***************************************************************************)
EXTENDS Integers, Sequences, FiniteSets, TLC

\* ------------------------------------------------------------------ bounds
NumWorkers == 2     \* pool threads of the model
MaxTiles == 3       \* Tile objects (stubs) created in one behaviour
MaxClock == 2       \* largest steady_clock reading
MaxMemory == 8      \* maxMemory, in bytes
TileSize == 2       \* tile edge, in pixels
MaxJobs == 3        \* tasks accepted by a pool on its own

Null == 0
Consumer == NumWorkers + 1   \* the consumer (GUI) thread, as a mutex owner
NoOwner == Null

Min(a, b) == IF a <= b THEN a ELSE b
Max(a, b) == IF a >= b THEN a ELSE b

\* ------------------------------------------------------------------ cv::Mat
\* A cv::Mat: cols x rows pixels, cn channels of bpc bytes each; pix[y+1][x+1].
EmptyMat == [cols |-> 0, rows |-> 0, cn |-> 1, bpc |-> 1, pix |-> <<>>]

MatEmpty(m) == m.cols * m.rows = 0

PixA(x, y) == 1 + x + 3 * y
PixB(x, y) == 20 + x + 4 * y

\* cv::imread: what each path decodes to ("bad" does not decode).
Decode(p) ==
  CASE p = "a" -> [cols |-> 3, rows |-> 3, cn |-> 1, bpc |-> 1,
                   pix |-> [y \in 1..3 |-> [x \in 1..3 |-> PixA(x - 1, y - 1)]]]
    [] p = "b" -> [cols |-> 4, rows |-> 2, cn |-> 2, bpc |-> 1,
                   pix |-> [y \in 1..2 |-> [x \in 1..4 |-> PixB(x - 1, y - 1)]]]
    [] OTHER -> EmptyMat

Key(l, x, y) == [level |-> l, x |-> x, y |-> y]

Rect(x, y, w, h) == [x |-> x, y |-> y, w |-> w, h |-> h]

\* cv::Rect operator&
RectAnd(a, b) ==
  LET x1 == Max(a.x, b.x)
      y1 == Max(a.y, b.y)
      w == Min(a.x + a.w, b.x + b.w) - x1
      h == Min(a.y + a.h, b.y + b.h) - y1
  IN IF w <= 0 \/ h <= 0 THEN Rect(0, 0, 0, 0) ELSE Rect(x1, y1, w, h)

\* cv::Mat(const Mat&, const Rect&) asserts the roi lies inside the matrix.
RoiValid(m, r) ==
  /\ 0 <= r.x /\ 0 <= r.w /\ r.x + r.w <= m.cols
  /\ 0 <= r.y /\ 0 <= r.h /\ r.y + r.h <= m.rows

Crop(m, r) ==
  [cols |-> r.w, rows |-> r.h, cn |-> m.cn, bpc |-> m.bpc,
   pix |-> [y \in 1..r.h |-> [x \in 1..r.w |-> m.pix[r.y + y][r.x + x]]]]

Zeros(e, m) ==
  [cols |-> e, rows |-> e, cn |-> m.cn, bpc |-> m.bpc,
   pix |-> [y \in 1..e |-> [x \in 1..e |-> 0]]]

RECURSIVE SumUpTo(_, _)
SumUpTo(f, n) == IF n = 0 THEN 0 ELSE f[n] + SumUpTo(f, n - 1)

\* Overlap (times e) of destination pixel i's footprint [i*n/e, (i+1)*n/e)
\* with source pixel s, both 0-based.
AreaWeight(i, s, n, e) == Max(0, Min((i + 1) * n, (s + 1) * e) - Max(i * n, s * e))

\* cv::resize(src, dst, Size(e, e), 0, 0, INTER_AREA): area-weighted mean,
\* rounded to nearest.
Resize(m, e) ==
  LET den == m.cols * m.rows
      val(i, j) ==
        LET row(t) == SumUpTo([s \in 1..m.cols |->
                         AreaWeight(i, s - 1, m.cols, e) * m.pix[t][s]], m.cols)
            tot == SumUpTo([t \in 1..m.rows |->
                         AreaWeight(j, t - 1, m.rows, e) * row(t)], m.rows)
        IN (2 * tot + den) \div (2 * den)
  IN [cols |-> e, rows |-> e, cn |-> m.cn, bpc |-> m.bpc,
      pix |-> [y \in 1..e |-> [x \in 1..e |-> val(x - 1, y - 1)]]]

\* (A load that leaves the tile as it is when the rectangle misses the picture.)
LoadFromMat_SkipsEmpty(source, sourceRect) ==
  LET validRect == RectAnd(sourceRect, Rect(0, 0, source.cols, source.rows))
  IN IF validRect.w * validRect.h = 0
       THEN EmptyMat
       ELSE IF validRect.w # TileSize \/ validRect.h # TileSize
              THEN Resize(Crop(source, validRect), TileSize)
              ELSE Crop(source, validRect)

\* (A load that keeps the clipped region at its own size.)
LoadFromMat_NoResize(source, sourceRect) ==
  LET validRect == RectAnd(sourceRect, Rect(0, 0, source.cols, source.rows))
  IN IF validRect.w * validRect.h = 0
       THEN Zeros(TileSize, source)
       ELSE Crop(source, validRect)

\* Tile::loadFromMat: the new imageData.
LoadFromMat(source, sourceRect) ==
  LET validRect == RectAnd(sourceRect, Rect(0, 0, source.cols, source.rows))
  IN IF validRect.w * validRect.h = 0
       THEN Zeros(TileSize, source)
       ELSE IF validRect.w # TileSize \/ validRect.h # TileSize
              THEN Resize(Crop(source, validRect), TileSize)
              ELSE Crop(source, validRect)

\* Tile::isLoaded
IsLoaded(t) == ~MatEmpty(t.imageData)

\* tileSizeBytes of getTile
TileSizeBytes(src) == TileSize * TileSize * src.cn * (IF src.bpc = 1 THEN 1 ELSE 4)

RECURSIVE Pow2(_)
Pow2(l) == IF l = 0 THEN 1 ELSE 2 * Pow2(l - 1)

\* The job's source rectangle, from the dimensions it read.
JobRect(k, cols, rows) ==
  LET tileScaledSize == TileSize * Pow2(k.level)
      srcX == Min(k.x * tileScaledSize, cols - 1)
      srcY == Min(k.y * tileScaledSize, rows - 1)
  IN Rect(srcX, srcY, Min(tileScaledSize, cols - srcX), Min(tileScaledSize, rows - srcY))

\* The job's tileData, from a valid roi.
JobData(k, src, roi) ==
  IF Pow2(k.level) > 1 THEN Resize(Crop(src, roi), TileSize) ELSE Crop(src, roi)

\* ------------------------------------------------------------------ state
VARIABLES
  scn,                  \* the run: the build's mutex, the files at hand, the keys the viewport asks for
  sourceImage,          \* TileCache::sourceImage
  cache,                \* TileCache::cache: key -> CacheEntry
  currentMemoryUsage,   \* TileCache::currentMemoryUsage
  tiles,                \* the Tile objects ever made, by identity
  fut,                  \* shared state of each job's loadingFuture, by job
  tasks,                \* ThreadPool::tasks (FIFO of jobs; a job is named by its stub's identity)
  stop,                 \* ThreadPool::stop
  completedTasks,       \* TileCache::completedTasks
  cacheMutex, queueMutex, completedTasksMutex,
  clock,                \* last reading of steady_clock
  pc, arg, ret,         \* consumer thread: position, argument of the running call, last result
  wpc, wjob, wroi, wdata,   \* worker threads: position, job taken, roi, tileData
  staleJobs,            \* history: unfinished loads that were queued or running when a clear() ran
  loadedBy              \* history: per Tile, the jobs whose completions were applied to it

vars == <<scn, sourceImage, cache, currentMemoryUsage, tiles, fut, tasks, stop,
          completedTasks, cacheMutex, queueMutex, completedTasksMutex, clock,
          pc, arg, ret, wpc, wjob, wroi, wdata, staleJobs, loadedBy>>

cacheVars == <<sourceImage, cache, currentMemoryUsage, tiles, clock, loadedBy>>
workerVars == <<wpc, wjob, wroi, wdata>>
poolVars == <<tasks, stop, queueMutex>>

\* scn.relock: std::mutex::lock on the thread that already owns the mutex is
\* undefined.  The thread blocks forever ("deadlock"), lock() throws
\* std::system_error ("throw"), or the lock is granted again ("recursive"),
\* depending on the platform's mutex.

\* The runs explored: the build's mutex, the files at hand, the keys the viewport
\* asks for, how many tiles it asks for, and the pool size (hardware_concurrency).
\* A build whose mutex blocks or throws never gets past setSourceImage, so its
\* source stays empty and no tile loads: those runs ask for the most tiles.
\* The runs of a build whose mutex relocks load pictures and look at the pixels.
Scenarios ==
  { [relock |-> "deadlock", paths |-> {"a"}, keys |-> {Key(0, 1, 0)},
     maxTiles |-> MaxTiles - 2, workers |-> NumWorkers],
    [relock |-> "throw", paths |-> {"a"},
     keys |-> {Key(0, 0, 0), Key(0, 1, 0), Key(0, 2, 0)},
     maxTiles |-> MaxTiles + 1, workers |-> NumWorkers - 1],
    [relock |-> "recursive", paths |-> {"a", "bad"},
     keys |-> {Key(0, 2, 0), Key(0, -1, 0)},
     maxTiles |-> MaxTiles - 1, workers |-> NumWorkers],
    [relock |-> "recursive", paths |-> {"a", "b"},
     keys |-> {Key(0, 1, 0), Key(1, 0, 0)},
     maxTiles |-> MaxTiles - 1, workers |-> NumWorkers] }

NoRet == [op |-> "none"]
NoRoi == Rect(0, 0, 0, 0)

EmptyMap == [j \in {} |-> Null]

Init ==
  /\ scn \in Scenarios
  /\ sourceImage = EmptyMat
  /\ cache = EmptyMap
  /\ currentMemoryUsage = 0
  /\ tiles = <<>>
  /\ fut = <<>>
  /\ tasks = <<>>
  /\ stop = FALSE
  /\ completedTasks = <<>>
  /\ cacheMutex = NoOwner /\ queueMutex = NoOwner /\ completedTasksMutex = NoOwner
  /\ clock = 0
  /\ pc = "idle" /\ arg = Null /\ ret = NoRet
  /\ wpc = [w \in 1..scn.workers |-> "idle"]
  /\ wjob = [w \in 1..scn.workers |-> Null]
  /\ wroi = [w \in 1..scn.workers |-> NoRoi]
  /\ wdata = [w \in 1..scn.workers |-> EmptyMat]
  /\ staleJobs = {}
  /\ loadedBy = <<>>

\* The pool's threads.
Workers == DOMAIN wpc

\* Map helpers (cache is a function on the set of keys present).
Without(f, k) == [j \in DOMAIN f \ {k} |-> f[j]]
With(f, k, v) == [j \in DOMAIN f \cup {k} |-> IF j = k THEN v ELSE f[j]]

\* Jobs queued in the pool or running in a worker (not yet finished).
InFlight == ({tasks[i] : i \in DOMAIN tasks} \cup {wjob[w] : w \in Workers}) \ {Null}

\* (A closure that keeps its own stub and loads it, in the map or not.)
ApplyOne_LoadsOwnTile(st, c) ==
  [tiles |-> [st.tiles EXCEPT ![c.job].imageData =
                LoadFromMat(c.data, Rect(0, 0, c.data.cols, c.data.rows))],
   loadedBy |-> [st.loadedBy EXCEPT ![c.job] = Append(@, [job |-> c.job, stale |-> c.stale])]]

\* A completion closure: finds the key in the map and loads the tile it finds.
\* (The closure holds the key and the pixels; job and stale are history.)
ApplyOne(st, c) ==
  IF c.key \in DOMAIN cache
    THEN LET t == cache[c.key].tile
         IN [tiles |-> [st.tiles EXCEPT ![t].imageData =
                          LoadFromMat(c.data, Rect(0, 0, c.data.cols, c.data.rows))],
             loadedBy |-> [st.loadedBy EXCEPT ![t] = Append(@, [job |-> c.job, stale |-> c.stale])]]
    ELSE st

RECURSIVE ApplyAll(_, _)
ApplyAll(st, q) == IF q = <<>> THEN st ELSE ApplyAll(ApplyOne(st, Head(q)), Tail(q))

\* The jobs whose queued completions find no entry for their key (history, kept
\* in the result of the getTile whose drain ran them).
Dropped ==
  {completedTasks[i].job :
     i \in {j \in DOMAIN completedTasks : completedTasks[j].key \notin DOMAIN cache}}

\* ------------------------------------------------------------------ getTile
\* processCompletedTasks: swap the queue out under its mutex, then run the closures.
ProcessCompletedTasks ==
  /\ completedTasksMutex = NoOwner
  /\ LET st == ApplyAll([tiles |-> tiles, loadedBy |-> loadedBy], completedTasks)
     IN tiles' = st.tiles /\ loadedBy' = st.loadedBy
  /\ completedTasks' = <<>>

\* steady_clock::now(): never goes back, may repeat a reading.
Now == {t \in {clock, clock + 1} : t <= MaxClock}

\* (A hit that refreshes the last-access time of every entry.)
GetTileHit_TouchesAll(k) ==
  /\ pc = "idle"
  /\ ProcessCompletedTasks
  /\ cacheMutex = NoOwner
  /\ k \in DOMAIN cache
  /\ \E now \in Now :
       /\ clock' = now
       /\ cache' = [j \in DOMAIN cache |-> [cache[j] EXCEPT !.lastAccess = now]]
  /\ ret' = [op |-> "getTile", key |-> k, tile |-> cache[k].tile, hit |-> TRUE,
             evicted |-> <<>>, dropped |-> Dropped]
  /\ UNCHANGED <<scn, sourceImage, currentMemoryUsage, fut, poolVars,
                 cacheMutex, completedTasksMutex, pc, arg, workerVars, staleJobs>>

\* (A hit that starts the load again while the tile it finds is not loaded.)
GetTileHit_Reloads(k) ==
  /\ pc = "idle"
  /\ ProcessCompletedTasks
  /\ cacheMutex = NoOwner
  /\ queueMutex = NoOwner
  /\ k \in DOMAIN cache
  /\ \E now \in Now :
       /\ clock' = now
       /\ cache' = [cache EXCEPT ![k].lastAccess = now]
  /\ tasks' = IF IsLoaded(tiles'[cache[k].tile]) THEN tasks ELSE Append(tasks, cache[k].tile)
  /\ ret' = [op |-> "getTile", key |-> k, tile |-> cache[k].tile, hit |-> TRUE,
             evicted |-> <<>>, dropped |-> Dropped]
  /\ UNCHANGED <<scn, sourceImage, currentMemoryUsage, fut, stop, queueMutex,
                 cacheMutex, completedTasksMutex, pc, arg, workerVars, staleJobs>>

\* getTile on a key of the map: drain, refresh lastAccess, return the entry's tile.
GetTileHit(k) ==
  /\ pc = "idle"
  /\ ProcessCompletedTasks
  /\ cacheMutex = NoOwner
  /\ k \in DOMAIN cache
  /\ \E now \in Now :
       /\ clock' = now
       /\ cache' = [cache EXCEPT ![k].lastAccess = now]
  /\ ret' = [op |-> "getTile", key |-> k, tile |-> cache[k].tile, hit |-> TRUE,
             evicted |-> <<>>, dropped |-> Dropped]
  /\ UNCHANGED <<scn, sourceImage, currentMemoryUsage, fut, poolVars,
                 cacheMutex, completedTasksMutex, pc, arg, workerVars, staleJobs>>

\* (A stub whose constructor already allocates its pixel buffer.)
NewTile_Allocated(k) == [key |-> k, imageData |-> Zeros(TileSize, EmptyMat)]

\* The stub and its entry (the entry is in the map before the job is enqueued).
NewTile(k) == [key |-> k, imageData |-> EmptyMat]
NewEntry(t, now) == [tile |-> t, size |-> TileSizeBytes(sourceImage), lastAccess |-> now]

\* getTile on a key not in the map: drain, make the stub and its entry; the
\* call goes on to enqueue the job, cacheMutex held.
GetTileMiss(k) ==
  /\ pc = "idle"
  /\ Len(tiles) < scn.maxTiles
  /\ completedTasksMutex = NoOwner
  /\ cacheMutex = NoOwner
  /\ k \notin DOMAIN cache
  /\ LET st == ApplyAll([tiles |-> tiles, loadedBy |-> loadedBy], completedTasks)
     IN /\ tiles' = Append(st.tiles, NewTile(k))
        /\ loadedBy' = Append(st.loadedBy, <<>>)
  /\ completedTasks' = <<>>
  /\ \E now \in Now :
       /\ clock' = now
       /\ cache' = With(cache, k, NewEntry(Len(tiles) + 1, now))
  /\ fut' = Append(fut, "pending")
  /\ cacheMutex' = Consumer
  /\ pc' = "enqueue" /\ arg' = k
  /\ ret' = [op |-> "getTile", key |-> k, tile |-> Len(tiles) + 1, hit |-> FALSE,
             evicted |-> <<>>, dropped |-> Dropped]
  /\ UNCHANGED <<scn, sourceImage, currentMemoryUsage, poolVars,
                 completedTasksMutex, workerVars, staleJobs>>

\* (A notify_one that reaches no waiting thread.)
NotifyOne_WakesNobody(wp) == {wp}

\* condition.notify_one(): wakes one waiting worker, if any waits.
NotifyOne(wp) ==
  IF \E w \in DOMAIN wp : wp[w] = "waiting"
    THEN {[wp EXCEPT ![w] = "idle"] : w \in {v \in DOMAIN wp : wp[v] = "waiting"}}
    ELSE {wp}

\* (An insert that never runs the eviction pass.)
GetTileEnqueue_NoEvict ==
  /\ pc = "enqueue"
  /\ queueMutex = NoOwner
  /\ ~stop
  /\ tasks' = Append(tasks, cache[arg].tile)
  /\ wpc' \in NotifyOne(wpc)
  /\ currentMemoryUsage' = currentMemoryUsage + cache[arg].size
  /\ pc' = "idle" /\ cacheMutex' = NoOwner
  /\ UNCHANGED <<scn, sourceImage, cache, tiles, clock, loadedBy, fut, stop, queueMutex,
                 completedTasks, completedTasksMutex, arg, ret, wjob, wroi, wdata, staleJobs>>

\* ThreadPool::enqueue, then the accounting of getTile.
GetTileEnqueue ==
  /\ pc = "enqueue"
  /\ queueMutex = NoOwner
  /\ ~stop
  /\ tasks' = Append(tasks, cache[arg].tile)
  /\ wpc' \in NotifyOne(wpc)
  /\ currentMemoryUsage' = currentMemoryUsage + cache[arg].size
  /\ IF currentMemoryUsage' > MaxMemory
       THEN pc' = "evict" /\ UNCHANGED cacheMutex
       ELSE pc' = "idle" /\ cacheMutex' = NoOwner
  /\ UNCHANGED <<scn, sourceImage, cache, tiles, clock, loadedBy, fut, stop, queueMutex,
                 completedTasks, completedTasksMutex, arg, ret, wjob, wroi, wdata, staleJobs>>

\* (A scan that stops at cache.begin(), whatever its lastAccess.)
Oldest_First(c) == DOMAIN c

\* The entries the linear scan of evictIfNeeded can end on: one with the least
\* lastAccess (the first such in the map's iteration order, which is unspecified).
Oldest(c) == {k \in DOMAIN c : \A j \in DOMAIN c : c[k].lastAccess <= c[j].lastAccess}

\* (A pass that goes on until the counter is 0.)
EvictCondition_UntilEmpty == currentMemoryUsage > 0 /\ DOMAIN cache # {}

EvictCondition == currentMemoryUsage > MaxMemory \div 2 /\ DOMAIN cache # {}

\* (An iteration that erases the entry and leaves the counter as it is.)
EvictOne_KeepsCounter ==
  /\ pc = "evict"
  /\ EvictCondition
  /\ \E k \in Oldest(cache) :
       /\ cache' = Without(cache, k)
       /\ ret' = [ret EXCEPT !.evicted = Append(@, k)]
  /\ UNCHANGED <<scn, sourceImage, currentMemoryUsage, tiles, clock, loadedBy, fut, poolVars,
                 completedTasks, cacheMutex, completedTasksMutex, pc, arg, workerVars,
                 staleJobs>>

\* One iteration of the loop of evictIfNeeded.
EvictOne ==
  /\ pc = "evict"
  /\ EvictCondition
  /\ \E k \in Oldest(cache) :
       /\ currentMemoryUsage' = currentMemoryUsage - cache[k].size
       /\ cache' = Without(cache, k)
       /\ ret' = [ret EXCEPT !.evicted = Append(@, k)]
  /\ UNCHANGED <<scn, sourceImage, tiles, clock, loadedBy, fut, poolVars, completedTasks,
                 cacheMutex, completedTasksMutex, pc, arg, workerVars, staleJobs>>

EvictDone ==
  /\ pc = "evict"
  /\ ~EvictCondition
  /\ pc' = "idle"
  /\ cacheMutex' = NoOwner
  /\ UNCHANGED <<scn, cacheVars, fut, poolVars, completedTasks, completedTasksMutex,
                 arg, ret, workerVars, staleJobs>>

\* ------------------------------------------------------------------ clear
\* What the swap of clear() leaves in completedTasks.  clear() does not take
\* completedTasksMutex: when a worker is inside its push at that moment the two
\* accesses race, and the swap may be lost.
ClearedQueue ==
  IF completedTasksMutex # NoOwner THEN {<<>>, completedTasks} ELSE {<<>>}

\* The body of clear(), cacheMutex held.
ClearBody ==
  /\ cache' = EmptyMap
  /\ currentMemoryUsage' = 0
  /\ completedTasks' \in ClearedQueue
  /\ staleJobs' = staleJobs \cup InFlight

Clear ==
  /\ pc = "idle"
  /\ cacheMutex = NoOwner
  /\ ClearBody
  /\ ret' = [op |-> "clear", queued |-> {completedTasks[i].job : i \in DOMAIN completedTasks},
             source |-> sourceImage]
  /\ UNCHANGED <<scn, sourceImage, tiles, clock, loadedBy, fut, poolVars, cacheMutex,
                 completedTasksMutex, pc, arg, workerVars>>

\* ------------------------------------------------------------------ setSourceImage
\* setSourceImage takes cacheMutex and calls clear(), whose lock_guard locks
\* cacheMutex again on the owning thread.  One action per outcome of that lock.
SetSourceImageBlocks(p) ==
  /\ pc = "idle"
  /\ cacheMutex = NoOwner
  /\ scn.relock = "deadlock"
  /\ cacheMutex' = Consumer
  /\ pc' = "blocked" /\ arg' = p
  /\ UNCHANGED <<scn, cacheVars, fut, poolVars, completedTasks, completedTasksMutex,
                 ret, workerVars, staleJobs>>

SetSourceImageThrows(p) ==
  /\ pc = "idle"
  /\ cacheMutex = NoOwner
  /\ scn.relock = "throw"
  /\ ret' = [op |-> "setSourceImage", path |-> p, result |-> "exception"]
  /\ UNCHANGED <<scn, cacheVars, fut, poolVars, completedTasks, cacheMutex,
                 completedTasksMutex, pc, arg, workerVars, staleJobs>>

\* (A setSourceImage that does not call clear().)
SetSourceImageClears_NoClear(p) ==
  /\ pc = "idle"
  /\ cacheMutex = NoOwner
  /\ scn.relock = "recursive"
  /\ cacheMutex' = Consumer
  /\ pc' = "ss_decode" /\ arg' = p
  /\ UNCHANGED <<scn, cacheVars, fut, poolVars, completedTasks,
                 completedTasksMutex, ret, workerVars, staleJobs>>

SetSourceImageClears(p) ==
  /\ pc = "idle"
  /\ cacheMutex = NoOwner
  /\ scn.relock = "recursive"
  /\ ClearBody
  /\ cacheMutex' = Consumer
  /\ pc' = "ss_decode" /\ arg' = p
  /\ UNCHANGED <<scn, sourceImage, tiles, clock, loadedBy, fut, poolVars,
                 completedTasksMutex, ret, workerVars>>

\* (A decode into a temporary that is installed only when it is not empty.)
SetSourceDecode_KeepsOldOnFailure ==
  /\ pc = "ss_decode"
  /\ sourceImage' = IF MatEmpty(Decode(arg)) THEN sourceImage ELSE Decode(arg)
  /\ ret' = [op |-> "setSourceImage", path |-> arg,
             result |-> IF MatEmpty(Decode(arg)) THEN "false" ELSE "true"]
  /\ pc' = "idle"
  /\ cacheMutex' = NoOwner
  /\ UNCHANGED <<scn, cache, currentMemoryUsage, tiles, clock, loadedBy, fut, poolVars,
                 completedTasks, completedTasksMutex, arg, workerVars, staleJobs>>

\* imread into sourceImage, and the result.
SetSourceDecode ==
  /\ pc = "ss_decode"
  /\ sourceImage' = Decode(arg)
  /\ ret' = [op |-> "setSourceImage", path |-> arg, result |-> IF MatEmpty(Decode(arg)) THEN "false" ELSE "true"]
  /\ pc' = "idle"
  /\ cacheMutex' = NoOwner
  /\ UNCHANGED <<scn, cache, currentMemoryUsage, tiles, clock, loadedBy, fut, poolVars,
                 completedTasks, completedTasksMutex, arg, workerVars, staleJobs>>

\* ------------------------------------------------------------------ reads
\* What tileCount(), memoryUsage() and sourceSize() return.
TileCountValue == Cardinality(DOMAIN cache)
MemoryUsageValue == currentMemoryUsage
SourceSizeValue == IF MatEmpty(sourceImage) THEN <<0, 0>> ELSE <<sourceImage.cols, sourceImage.rows>>

\* (A tileCount() that drains the completion queue first.)
TileCount_Drains ==
  /\ pc = "idle"
  /\ cacheMutex = NoOwner
  /\ ProcessCompletedTasks
  /\ UNCHANGED <<scn, sourceImage, cache, currentMemoryUsage, clock, fut, poolVars,
                 cacheMutex, completedTasksMutex, pc, arg, ret, workerVars, staleJobs>>

\* tileCount() and memoryUsage() take cacheMutex and change nothing.
TileCount ==
  /\ pc = "idle"
  /\ cacheMutex = NoOwner
  /\ UNCHANGED vars

MemoryUsage ==
  /\ pc = "idle"
  /\ cacheMutex = NoOwner
  /\ UNCHANGED vars

\* sourceSize() reads sourceImage without a lock and changes nothing.
SourceSize ==
  /\ pc = "idle"
  /\ UNCHANGED vars

\* ------------------------------------------------------------------ pool workers
\* unique_lock of the worker loop.
WorkerLock(w) ==
  /\ wpc[w] = "idle"
  /\ queueMutex = NoOwner
  /\ queueMutex' = w
  /\ wpc' = [wpc EXCEPT ![w] = "locked"]
  /\ UNCHANGED <<scn, cacheVars, fut, tasks, stop, completedTasks, cacheMutex,
                 completedTasksMutex, pc, arg, ret, wjob, wroi, wdata, staleJobs>>

\* condition.wait: the queue is empty and stop is unset, so the worker
\* releases queueMutex and waits.
WorkerWait(w) ==
  /\ wpc[w] = "locked"
  /\ ~(stop \/ tasks # <<>>)
  /\ queueMutex' = NoOwner
  /\ wpc' = [wpc EXCEPT ![w] = "waiting"]
  /\ UNCHANGED <<scn, cacheVars, fut, tasks, stop, completedTasks, cacheMutex,
                 completedTasksMutex, pc, arg, ret, wjob, wroi, wdata, staleJobs>>

\* A wait may end without a notify; the worker goes to take the mutex again.
WorkerSpuriousWake(w) ==
  /\ wpc[w] = "waiting"
  /\ wpc' = [wpc EXCEPT ![w] = "idle"]
  /\ UNCHANGED <<scn, cacheVars, fut, poolVars, completedTasks, cacheMutex,
                 completedTasksMutex, pc, arg, ret, wjob, wroi, wdata, staleJobs>>

\* (A worker that takes the task at the back of the queue.)
WorkerPop_TakesBack(w) ==
  /\ wpc[w] = "locked"
  /\ tasks # <<>>
  /\ wjob' = [wjob EXCEPT ![w] = tasks[Len(tasks)]]
  /\ tasks' = SubSeq(tasks, 1, Len(tasks) - 1)
  /\ queueMutex' = NoOwner
  /\ wpc' = [wpc EXCEPT ![w] = "dims"]
  /\ UNCHANGED <<scn, cacheVars, fut, stop, completedTasks, cacheMutex,
                 completedTasksMutex, pc, arg, ret, wroi, wdata, staleJobs>>

\* (A worker that runs the task inside the scope of its unique_lock.)
WorkerPop_KeepsMutex(w) ==
  /\ wpc[w] = "locked"
  /\ tasks # <<>>
  /\ wjob' = [wjob EXCEPT ![w] = Head(tasks)]
  /\ tasks' = Tail(tasks)
  /\ wpc' = [wpc EXCEPT ![w] = "dims"]
  /\ UNCHANGED <<scn, cacheVars, fut, stop, queueMutex, completedTasks, cacheMutex,
                 completedTasksMutex, pc, arg, ret, wroi, wdata, staleJobs>>

\* (A worker that takes cacheMutex, queueMutex held, for the time of its pop.)
WorkerPop_UnderCacheMutex(w) ==
  /\ wpc[w] = "locked"
  /\ tasks # <<>>
  /\ cacheMutex = NoOwner
  /\ wjob' = [wjob EXCEPT ![w] = Head(tasks)]
  /\ tasks' = Tail(tasks)
  /\ queueMutex' = NoOwner
  /\ wpc' = [wpc EXCEPT ![w] = "dims"]
  /\ UNCHANGED <<scn, cacheVars, fut, stop, completedTasks, cacheMutex,
                 completedTasksMutex, pc, arg, ret, wroi, wdata, staleJobs>>

\* The worker pops the front task, releases queueMutex and starts the task.
WorkerPop(w) ==
  /\ wpc[w] = "locked"
  /\ tasks # <<>>
  /\ wjob' = [wjob EXCEPT ![w] = Head(tasks)]
  /\ tasks' = Tail(tasks)
  /\ queueMutex' = NoOwner
  /\ wpc' = [wpc EXCEPT ![w] = "dims"]
  /\ UNCHANGED <<scn, cacheVars, fut, stop, completedTasks, cacheMutex,
                 completedTasksMutex, pc, arg, ret, wroi, wdata, staleJobs>>

\* The job computes its rectangle from the dimensions of sourceImage; it
\* returns without a completion when the rectangle is empty.
WorkerRect(w) ==
  /\ wpc[w] = "dims"
  /\ LET roi == JobRect(tiles[wjob[w]].key, sourceImage.cols, sourceImage.rows)
     IN IF roi.w <= 0 \/ roi.h <= 0
          THEN /\ fut' = [fut EXCEPT ![wjob[w]] = "ready"]
               /\ wjob' = [wjob EXCEPT ![w] = Null]
               /\ wpc' = [wpc EXCEPT ![w] = "idle"]
               /\ staleJobs' = staleJobs \ {wjob[w]}
               /\ UNCHANGED wroi
          ELSE /\ wroi' = [wroi EXCEPT ![w] = roi]
               /\ wpc' = [wpc EXCEPT ![w] = "crop"]
               /\ UNCHANGED <<fut, wjob, staleJobs>>
  /\ UNCHANGED <<scn, cacheVars, poolVars, completedTasks, cacheMutex,
                 completedTasksMutex, pc, arg, ret, wdata>>

\* The job crops (and for level > 0 resamples) the roi.
WorkerCrop(w) ==
  /\ wpc[w] = "crop"
  /\ RoiValid(sourceImage, wroi[w])
  /\ wdata' = [wdata EXCEPT ![w] = JobData(tiles[wjob[w]].key, sourceImage, wroi[w])]
  /\ wpc' = [wpc EXCEPT ![w] = "post"]
  /\ UNCHANGED <<scn, cacheVars, fut, poolVars, completedTasks, cacheMutex,
                 completedTasksMutex, pc, arg, ret, wjob, wroi, staleJobs>>

\* (A task whose exception leaves the thread function: the worker is gone.)
WorkerCropThrows_EndsWorker(w) ==
  /\ wpc[w] = "crop"
  /\ ~RoiValid(sourceImage, wroi[w])
  /\ fut' = [fut EXCEPT ![wjob[w]] = "exception"]
  /\ wjob' = [wjob EXCEPT ![w] = Null]
  /\ wroi' = [wroi EXCEPT ![w] = NoRoi]
  /\ wpc' = [wpc EXCEPT ![w] = "exited"]
  /\ staleJobs' = staleJobs \ {wjob[w]}
  /\ UNCHANGED <<scn, cacheVars, poolVars, completedTasks, cacheMutex,
                 completedTasksMutex, pc, arg, ret, wdata>>

\* The roi is not inside sourceImage: cv::Exception, kept by the packaged_task.
WorkerCropThrows(w) ==
  /\ wpc[w] = "crop"
  /\ ~RoiValid(sourceImage, wroi[w])
  /\ fut' = [fut EXCEPT ![wjob[w]] = "exception"]
  /\ wjob' = [wjob EXCEPT ![w] = Null]
  /\ wroi' = [wroi EXCEPT ![w] = NoRoi]
  /\ wpc' = [wpc EXCEPT ![w] = "idle"]
  /\ staleJobs' = staleJobs \ {wjob[w]}
  /\ UNCHANGED <<scn, cacheVars, poolVars, completedTasks, cacheMutex,
                 completedTasksMutex, pc, arg, ret, wdata>>

\* lock_guard on completedTasksMutex.
WorkerPostLock(w) ==
  /\ wpc[w] = "post"
  /\ completedTasksMutex = NoOwner
  /\ completedTasksMutex' = w
  /\ wpc' = [wpc EXCEPT ![w] = "push"]
  /\ UNCHANGED <<scn, cacheVars, fut, poolVars, completedTasks, cacheMutex,
                 pc, arg, ret, wjob, wroi, wdata, staleJobs>>

\* (A job that loads its stub itself instead of posting a closure.)
WorkerPush_LoadsTile(w) ==
  /\ wpc[w] = "push"
  /\ tiles' = [tiles EXCEPT ![wjob[w]].imageData =
                 LoadFromMat(wdata[w], Rect(0, 0, wdata[w].cols, wdata[w].rows))]
  /\ completedTasksMutex' = NoOwner
  /\ fut' = [fut EXCEPT ![wjob[w]] = "ready"]
  /\ wjob' = [wjob EXCEPT ![w] = Null]
  /\ wroi' = [wroi EXCEPT ![w] = NoRoi]
  /\ wdata' = [wdata EXCEPT ![w] = EmptyMat]
  /\ wpc' = [wpc EXCEPT ![w] = "idle"]
  /\ staleJobs' = staleJobs \ {wjob[w]}
  /\ UNCHANGED <<scn, sourceImage, cache, currentMemoryUsage, clock, loadedBy,
                 poolVars, completedTasks, cacheMutex, pc, arg, ret>>

\* completedTasks.push of the closure; the job returns.
WorkerPush(w) ==
  /\ wpc[w] = "push"
  /\ completedTasks' = Append(completedTasks,
                         [key |-> tiles[wjob[w]].key, data |-> wdata[w],
                          job |-> wjob[w], stale |-> wjob[w] \in staleJobs])
  /\ completedTasksMutex' = NoOwner
  /\ fut' = [fut EXCEPT ![wjob[w]] = "ready"]
  /\ wjob' = [wjob EXCEPT ![w] = Null]
  /\ wroi' = [wroi EXCEPT ![w] = NoRoi]
  /\ wdata' = [wdata EXCEPT ![w] = EmptyMat]
  /\ wpc' = [wpc EXCEPT ![w] = "idle"]
  /\ staleJobs' = staleJobs \ {wjob[w]}
  /\ UNCHANGED <<scn, cacheVars, poolVars, cacheMutex, pc, arg, ret>>

\* ------------------------------------------------------------------ specification
Next ==
  \/ \E k \in scn.keys : GetTileHit(k)
  \/ \E k \in scn.keys : GetTileMiss(k)
  \/ GetTileEnqueue
  \/ EvictOne
  \/ EvictDone
  \/ Clear
  \/ \E p \in scn.paths : SetSourceImageBlocks(p)
  \/ \E p \in scn.paths : SetSourceImageThrows(p)
  \/ \E p \in scn.paths : SetSourceImageClears(p)
  \/ SetSourceDecode
  \/ TileCount
  \/ MemoryUsage
  \/ SourceSize
  \/ \E w \in Workers : WorkerLock(w)
  \/ \E w \in Workers : WorkerWait(w)
  \/ \E w \in Workers : WorkerSpuriousWake(w)
  \/ \E w \in Workers : WorkerPop(w)
  \/ \E w \in Workers : WorkerRect(w)
  \/ \E w \in Workers : WorkerCrop(w)
  \/ \E w \in Workers : WorkerCropThrows(w)
  \/ \E w \in Workers : WorkerPostLock(w)
  \/ \E w \in Workers : WorkerPush(w)

Spec == Init /\ [][Next]_vars

\* The runs explored for progress: one short run per build, and for the build
\* whose mutex relocks a key left of the picture and a key on its right edge.
FairScenarios ==
  { [relock |-> "deadlock", paths |-> {"a"}, keys |-> {Key(0, 1, 0)},
     maxTiles |-> MaxTiles - 2, workers |-> NumWorkers - 1],
    [relock |-> "throw", paths |-> {"a"}, keys |-> {Key(0, 1, 0)},
     maxTiles |-> MaxTiles - 2, workers |-> NumWorkers - 1],
    [relock |-> "recursive", paths |-> {"b"},
     keys |-> {Key(0, -1, 0), Key(0, 1, 0)},
     maxTiles |-> MaxTiles - 1, workers |-> NumWorkers - 1] }

FairInit ==
  /\ scn \in FairScenarios
  /\ sourceImage = EmptyMat
  /\ cache = EmptyMap
  /\ currentMemoryUsage = 0
  /\ tiles = <<>>
  /\ fut = <<>>
  /\ tasks = <<>>
  /\ stop = FALSE
  /\ completedTasks = <<>>
  /\ cacheMutex = NoOwner /\ queueMutex = NoOwner /\ completedTasksMutex = NoOwner
  /\ clock = 0
  /\ pc = "idle" /\ arg = Null /\ ret = NoRet
  /\ wpc = [w \in 1..scn.workers |-> "idle"]
  /\ wjob = [w \in 1..scn.workers |-> Null]
  /\ wroi = [w \in 1..scn.workers |-> NoRoi]
  /\ wdata = [w \in 1..scn.workers |-> EmptyMat]
  /\ staleJobs = {}
  /\ loadedBy = <<>>

\* One step of pool thread w that is not the end of a wait without a notify.
WorkerStep(w) ==
  /\ w \in Workers
  /\ \/ WorkerLock(w) \/ WorkerWait(w) \/ WorkerPop(w) \/ WorkerRect(w)
     \/ WorkerCrop(w) \/ WorkerCropThrows(w) \/ WorkerPostLock(w) \/ WorkerPush(w)

\* The program under the scheduling the loading path relies on: a pool thread
\* that can take a step eventually takes it (a thread contending for a mutex
\* eventually gets it), a call in progress on the consumer's thread runs to its
\* end, and the consumer keeps calling getTile (the viewport repaints).
FairSpec ==
  /\ FairInit /\ [][Next]_vars
  /\ \A w \in 1..NumWorkers : SF_vars(WorkerStep(w))
  /\ SF_vars(GetTileEnqueue \/ EvictOne \/ EvictDone \/ SetSourceDecode)
  /\ SF_vars(\E k \in scn.keys : GetTileHit(k) \/ GetTileMiss(k))

\* ------------------------------------------------------------------ ThreadPool on its own
\* TileCache::ThreadPool as a unit: a client enqueues tasks (named 1, 2, ...),
\* the pool is destroyed (by the client, or by another thread while the client
\* still enqueues), the workers run the loop above on tasks that return or throw.
\* pc is the position of the destructor; the TileCache variables stay as
\* constructed.
PoolScenarios == {[workers |-> n] : n \in 1..NumWorkers}

PoolInit ==
  /\ scn \in PoolScenarios
  /\ sourceImage = EmptyMat
  /\ cache = EmptyMap
  /\ currentMemoryUsage = 0
  /\ tiles = <<>>
  /\ fut = <<>>
  /\ tasks = <<>>
  /\ stop = FALSE
  /\ completedTasks = <<>>
  /\ cacheMutex = NoOwner /\ queueMutex = NoOwner /\ completedTasksMutex = NoOwner
  /\ clock = 0
  /\ pc = "idle" /\ arg = Null /\ ret = NoRet
  /\ wpc = [w \in 1..scn.workers |-> "idle"]
  /\ wjob = [w \in 1..scn.workers |-> Null]
  /\ wroi = [w \in 1..scn.workers |-> NoRoi]
  /\ wdata = [w \in 1..scn.workers |-> EmptyMat]
  /\ staleJobs = {}
  /\ loadedBy = <<>>

\* (An enqueue that does not look at stop.)
PoolEnqueue_IgnoresStop ==
  /\ pc # "destroyed"
  /\ arg = Null
  /\ queueMutex = NoOwner
  /\ Len(fut) < MaxJobs
  /\ fut' = Append(fut, "pending")
  /\ tasks' = Append(tasks, Len(fut) + 1)
  /\ arg' = Len(fut) + 1
  /\ ret' = [op |-> "enqueue", result |-> "accepted"]
  /\ UNCHANGED <<scn, cacheVars, stop, queueMutex, completedTasks, cacheMutex,
                 completedTasksMutex, pc, workerVars, staleJobs>>

\* ThreadPool::enqueue, the part under queueMutex: throw when stop is set,
\* else push the task.  arg names the task whose notify_one is still to come.
PoolEnqueue ==
  /\ pc # "destroyed"
  /\ arg = Null
  /\ queueMutex = NoOwner
  /\ IF stop
       THEN /\ ret' = [op |-> "enqueue", result |-> "pool stopped"]
            /\ UNCHANGED <<fut, tasks, arg>>
       ELSE /\ Len(fut) < MaxJobs
            /\ fut' = Append(fut, "pending")
            /\ tasks' = Append(tasks, Len(fut) + 1)
            /\ arg' = Len(fut) + 1
            /\ ret' = [op |-> "enqueue", result |-> "accepted"]
  /\ UNCHANGED <<scn, cacheVars, stop, queueMutex, completedTasks, cacheMutex,
                 completedTasksMutex, pc, workerVars, staleJobs>>

\* ThreadPool::enqueue, after the lock is released: condition.notify_one(), and
\* the future is returned.
PoolNotifyOne ==
  /\ arg # Null
  /\ wpc' \in NotifyOne(wpc)
  /\ arg' = Null
  /\ UNCHANGED <<scn, cacheVars, fut, poolVars, completedTasks, cacheMutex,
                 completedTasksMutex, pc, ret, wjob, wroi, wdata, staleJobs>>

\* ~ThreadPool: stop is set under queueMutex.
PoolStop ==
  /\ pc = "idle"
  /\ queueMutex = NoOwner
  /\ stop' = TRUE
  /\ pc' = "dtor_notify"
  /\ UNCHANGED <<scn, cacheVars, fut, tasks, queueMutex, completedTasks, cacheMutex,
                 completedTasksMutex, arg, ret, workerVars, staleJobs>>

\* ~ThreadPool: condition.notify_all().
PoolNotifyAll ==
  /\ pc = "dtor_notify"
  /\ wpc' = [w \in Workers |-> IF wpc[w] = "waiting" THEN "idle" ELSE wpc[w]]
  /\ pc' = "dtor_join"
  /\ UNCHANGED <<scn, cacheVars, fut, poolVars, completedTasks, cacheMutex,
                 completedTasksMutex, arg, ret, wjob, wroi, wdata, staleJobs>>

\* ~ThreadPool: the joins return when every worker thread has returned.
PoolJoin ==
  /\ pc = "dtor_join"
  /\ arg = Null
  /\ \A w \in Workers : wpc[w] = "exited"
  /\ pc' = "destroyed"
  /\ UNCHANGED <<scn, cacheVars, fut, poolVars, completedTasks, cacheMutex,
                 completedTasksMutex, arg, ret, workerVars, staleJobs>>

\* The worker loop returns: stop is set and the queue is empty.
WorkerExit(w) ==
  /\ wpc[w] = "locked"
  /\ stop /\ tasks = <<>>
  /\ queueMutex' = NoOwner
  /\ wpc' = [wpc EXCEPT ![w] = "exited"]
  /\ UNCHANGED <<scn, cacheVars, fut, tasks, stop, completedTasks, cacheMutex,
                 completedTasksMutex, pc, arg, ret, wjob, wroi, wdata, staleJobs>>

\* task(): the packaged_task runs; it returns or throws into its future, and
\* the worker goes round its loop.
PoolTaskRuns(w) ==
  /\ wpc[w] = "dims"
  /\ \E r \in {"ready", "exception"} : fut' = [fut EXCEPT ![wjob[w]] = r]
  /\ wjob' = [wjob EXCEPT ![w] = Null]
  /\ wpc' = [wpc EXCEPT ![w] = "idle"]
  /\ UNCHANGED <<scn, cacheVars, poolVars, completedTasks, cacheMutex,
                 completedTasksMutex, pc, arg, ret, wroi, wdata, staleJobs>>

PoolNext ==
  \/ PoolEnqueue
  \/ PoolNotifyOne
  \/ PoolStop
  \/ PoolNotifyAll
  \/ PoolJoin
  \/ \E w \in Workers : WorkerLock(w)
  \/ \E w \in Workers : WorkerWait(w)
  \/ \E w \in Workers : WorkerSpuriousWake(w)
  \/ \E w \in Workers : WorkerPop(w)
  \/ \E w \in Workers : WorkerExit(w)
  \/ \E w \in Workers : PoolTaskRuns(w)

PoolSpec == PoolInit /\ [][PoolNext]_vars

\* The pool under fair scheduling: a pool thread that can take a step eventually
\* takes it (a thread contending for queueMutex eventually gets it), a task
\* that runs ends, and a call in progress (enqueue, the destructor) goes on.
\* No wait is assumed to end without a notify.
PoolWorkerStep(w) ==
  /\ w \in Workers
  /\ \/ WorkerLock(w) \/ WorkerWait(w) \/ WorkerPop(w) \/ WorkerExit(w) \/ PoolTaskRuns(w)

FairPoolSpec ==
  /\ PoolSpec
  /\ \A w \in 1..NumWorkers : SF_vars(PoolWorkerStep(w))
  /\ WF_vars(PoolNotifyOne)
  /\ WF_vars(PoolNotifyAll)

\* ------------------------------------------------------------------ ~TileCache
\* Destruction of a TileCache that has jobs queued or running.  The destructor
\* body calls clear(); then the members are destroyed in the reverse of their
\* declaration order: completedTasksMutex, completedTasks, (tileSize,)
\* sourceImage, (the counters,) cacheMutex, cache, and last threadPool, whose
\* destructor sets stop, notifies and joins the workers.  pc is the position of
\* the destructor.
DtorScenarios ==
  { [relock |-> "recursive", paths |-> {"a"}, keys |-> {Key(0, 0, 0), Key(0, 1, 0)},
     maxTiles |-> MaxTiles - 1, workers |-> n] : n \in 1..NumWorkers }

DtorInit ==
  /\ scn \in DtorScenarios
  /\ sourceImage = EmptyMat
  /\ cache = EmptyMap
  /\ currentMemoryUsage = 0
  /\ tiles = <<>>
  /\ fut = <<>>
  /\ tasks = <<>>
  /\ stop = FALSE
  /\ completedTasks = <<>>
  /\ cacheMutex = NoOwner /\ queueMutex = NoOwner /\ completedTasksMutex = NoOwner
  /\ clock = 0
  /\ pc = "idle" /\ arg = Null /\ ret = NoRet
  /\ wpc = [w \in 1..scn.workers |-> "idle"]
  /\ wjob = [w \in 1..scn.workers |-> Null]
  /\ wroi = [w \in 1..scn.workers |-> NoRoi]
  /\ wdata = [w \in 1..scn.workers |-> EmptyMat]
  /\ staleJobs = {}
  /\ loadedBy = <<>>

\* Positions of the destructor at which a member no longer exists.
QueueDestroyed == pc \in {"d_queue", "d_source", "dtor_notify", "dtor_join", "destroyed"}
SourceDestroyed == pc \in {"d_source", "dtor_notify", "dtor_join", "destroyed"}

\* ~TileCache, the body: clear().
DtorClear ==
  /\ pc = "idle"
  /\ cacheMutex = NoOwner
  /\ ClearBody
  /\ pc' = "d_clear" /\ arg' = Null
  /\ ret' = [op |-> "~TileCache"]
  /\ UNCHANGED <<scn, sourceImage, tiles, clock, loadedBy, fut, poolVars, cacheMutex,
                 completedTasksMutex, workerVars>>

\* completedTasksMutex and completedTasks are destroyed (the closures still
\* queued go with the queue), whether or not a worker holds the mutex.
DtorCompletedTasks ==
  /\ pc = "d_clear"
  /\ completedTasks' = <<>>
  /\ pc' = "d_queue"
  /\ UNCHANGED <<scn, cacheVars, fut, poolVars, cacheMutex, completedTasksMutex,
                 arg, ret, workerVars, staleJobs>>

\* sourceImage is destroyed (then cacheMutex and the empty map).  ~Mat releases
\* the buffer and zeroes the header; what a later read of the dead object sees
\* is the zeroed header or, when the object's bytes are as before, the old one.
DtorSourceImage ==
  /\ pc = "d_queue"
  /\ sourceImage' \in {EmptyMat, sourceImage}
  /\ pc' = "d_source"
  /\ UNCHANGED <<scn, cache, currentMemoryUsage, tiles, clock, loadedBy, fut, poolVars,
                 completedTasks, cacheMutex, completedTasksMutex, arg, ret, workerVars,
                 staleJobs>>

\* threadPool is destroyed last: ~ThreadPool sets stop under queueMutex.
DtorThreadPool ==
  /\ pc = "d_source"
  /\ queueMutex = NoOwner
  /\ stop' = TRUE
  /\ pc' = "dtor_notify"
  /\ UNCHANGED <<scn, cacheVars, fut, tasks, queueMutex, completedTasks, cacheMutex,
                 completedTasksMutex, arg, ret, workerVars, staleJobs>>

\* A job that touches a member that no longer exists may also fault, which
\* ends the process.
WorkerFault(w) ==
  /\ \/ wpc[w] \in {"dims", "crop"} /\ SourceDestroyed
     \/ wpc[w] \in {"post", "push"} /\ QueueDestroyed
  /\ wpc' = [v \in Workers |-> "crashed"]
  /\ pc' = "aborted"
  /\ UNCHANGED <<scn, cacheVars, fut, poolVars, completedTasks, cacheMutex,
                 completedTasksMutex, arg, ret, wjob, wroi, wdata, staleJobs>>

DtorNext ==
  \/ \E k \in scn.keys : GetTileMiss(k)
  \/ GetTileEnqueue
  \/ \E p \in scn.paths : SetSourceImageClears(p)
  \/ SetSourceDecode
  \/ DtorClear
  \/ DtorCompletedTasks
  \/ DtorSourceImage
  \/ DtorThreadPool
  \/ PoolNotifyAll
  \/ PoolJoin
  \/ \E w \in Workers : WorkerLock(w)
  \/ \E w \in Workers : WorkerWait(w)
  \/ \E w \in Workers : WorkerSpuriousWake(w)
  \/ \E w \in Workers : WorkerPop(w)
  \/ \E w \in Workers : WorkerExit(w)
  \/ \E w \in Workers : WorkerRect(w)
  \/ \E w \in Workers : WorkerCrop(w)
  \/ \E w \in Workers : WorkerCropThrows(w)
  \/ \E w \in Workers : WorkerPostLock(w)
  \/ \E w \in Workers : WorkerPush(w)
  \/ \E w \in Workers : WorkerFault(w)

DtorSpec == DtorInit /\ [][DtorNext]_vars

\* ------------------------------------------------------------------ read/insert path
\* The consumer calls only getTile, clear, tileCount and memoryUsage, on a
\* cache as constructed or on one whose setSourceImage("b") has returned true.
ReadInsertScenarios ==
  { [relock |-> "recursive", paths |-> {"b"}, keys |-> {Key(0, -1, 0), Key(0, 1, 0)},
     maxTiles |-> MaxTiles - 1, workers |-> n] : n \in 1..NumWorkers }

ReadInsertInit ==
  /\ scn \in ReadInsertScenarios
  /\ sourceImage \in {EmptyMat} \cup {Decode(p) : p \in scn.paths}
  /\ cache = EmptyMap
  /\ currentMemoryUsage = 0
  /\ tiles = <<>>
  /\ fut = <<>>
  /\ tasks = <<>>
  /\ stop = FALSE
  /\ completedTasks = <<>>
  /\ cacheMutex = NoOwner /\ queueMutex = NoOwner /\ completedTasksMutex = NoOwner
  /\ clock = 0
  /\ pc = "idle" /\ arg = Null /\ ret = NoRet
  /\ wpc = [w \in 1..scn.workers |-> "idle"]
  /\ wjob = [w \in 1..scn.workers |-> Null]
  /\ wroi = [w \in 1..scn.workers |-> NoRoi]
  /\ wdata = [w \in 1..scn.workers |-> EmptyMat]
  /\ staleJobs = {}
  /\ loadedBy = <<>>

ReadInsertNext ==
  \/ \E k \in scn.keys : GetTileHit(k)
  \/ \E k \in scn.keys : GetTileMiss(k)
  \/ GetTileEnqueue
  \/ EvictOne
  \/ EvictDone
  \/ Clear
  \/ TileCount
  \/ MemoryUsage
  \/ \E w \in Workers : WorkerLock(w)
  \/ \E w \in Workers : WorkerWait(w)
  \/ \E w \in Workers : WorkerSpuriousWake(w)
  \/ \E w \in Workers : WorkerPop(w)
  \/ \E w \in Workers : WorkerRect(w)
  \/ \E w \in Workers : WorkerCrop(w)
  \/ \E w \in Workers : WorkerCropThrows(w)
  \/ \E w \in Workers : WorkerPostLock(w)
  \/ \E w \in Workers : WorkerPush(w)

\* The scheduling deadlock freedom is stated under: a pool thread that can
\* take a step again and again eventually takes it (so a thread contending for
\* a mutex that keeps being released eventually gets it), and a call in
\* progress on the consumer's thread goes on.  The consumer is not assumed to
\* start another call, and no wait is assumed to end without a notify.
FairReadInsertSpec ==
  /\ ReadInsertInit /\ [][ReadInsertNext]_vars
  /\ \A w \in 1..NumWorkers : SF_vars(WorkerStep(w))
  /\ SF_vars(GetTileEnqueue \/ EvictOne \/ EvictDone)

\* ------------------------------------------------------------------ Tile on its own
\* Tile::loadFromMat as a unit: one Tile of edge TileSize, a picture, and
\* source rectangles of any place and size around it.  sourceImage is the
\* picture passed as source, arg the rectangle of the last call.
LoadRects ==
  {Rect(x, y, w, h) : x \in (0 - TileSize)..(2 * TileSize), y \in (0 - TileSize)..TileSize,
                      w \in 0..(TileSize + 1), h \in 0..(TileSize + 1)}

TileInit ==
  /\ scn \in {[path |-> p] : p \in {"a", "b", "bad"}}
  /\ sourceImage = Decode(scn.path)
  /\ cache = EmptyMap
  /\ currentMemoryUsage = 0
  /\ tiles = <<NewTile(Key(0, 0, 0))>>
  /\ fut = <<>>
  /\ tasks = <<>>
  /\ stop = FALSE
  /\ completedTasks = <<>>
  /\ cacheMutex = NoOwner /\ queueMutex = NoOwner /\ completedTasksMutex = NoOwner
  /\ clock = 0
  /\ pc = "idle" /\ arg = Null /\ ret = NoRet
  /\ wpc = <<>> /\ wjob = <<>> /\ wroi = <<>> /\ wdata = <<>>
  /\ staleJobs = {}
  /\ loadedBy = <<<<>>>>

\* tile.loadFromMat(source, r)
TileLoadFromMat(r) ==
  /\ tiles' = [tiles EXCEPT ![1].imageData = LoadFromMat(sourceImage, r)]
  /\ arg' = r
  /\ ret' = [op |-> "loadFromMat"]
  /\ UNCHANGED <<scn, sourceImage, cache, currentMemoryUsage, clock, loadedBy, fut,
                 poolVars, completedTasks, cacheMutex, completedTasksMutex, pc,
                 workerVars, staleJobs>>

TileNext == \E r \in LoadRects : TileLoadFromMat(r)

TileSpec == TileInit /\ [][TileNext]_vars

\* ------------------------------------------------------------------ claims
TileIds == 1..Len(tiles)

\* The consumer is between two calls and its last call was a getTile.
GetTileReturned == pc = "idle" /\ ret.op = "getTile"

\* C1: getTile returns a Tile (never a null handle), and a Tile is not loaded
\* as long as no completion has been applied to it.
C1_StubUnloadedUntilApplied ==
  /\ ret.op = "getTile" => ret.tile \in TileIds
  /\ \A t \in TileIds : loadedBy[t] = <<>> => ~IsLoaded(tiles[t])

\* C1 witness: getTile has returned a stub whose job has already posted its
\* completion, which no drain has applied yet: the stub is still not loaded.
C1_Witness ==
  /\ GetTileReturned
  /\ ~IsLoaded(tiles[ret.tile])
  /\ \E i \in DOMAIN completedTasks : completedTasks[i].job = ret.tile

\* How many times job t is queued in the pool or held by a worker.
InFlightCount(t) ==
  Cardinality({i \in DOMAIN tasks : tasks[i] = t}) + Cardinality({w \in Workers : wjob[w] = t})

C3_SetSourceImageReturns ==
  /\ pc # "blocked"
  /\ ret.op = "setSourceImage" => ret.result \in {"true", "false"}

\* C4: setSourceImage returns failure exactly when the decode yields an empty
\* buffer, and after a failure sourceSize() is (0,0), tileCount() is 0 and
\* memoryUsage() is 0.
C4_FailedSetSourceLeavesEmpty ==
  /\ ret.op = "setSourceImage" /\ ret.result \in {"true", "false"} =>
       (ret.result = "false" <=> MatEmpty(Decode(ret.path)))
  /\ pc = "idle" /\ ret.op = "setSourceImage" /\ ret.result = "false" =>
       /\ SourceSizeValue = <<0, 0>>
       /\ TileCountValue = 0
       /\ MemoryUsageValue = 0

\* C4 witness: setSourceImage has just failed on a cache that had loaded a
\* tile from an earlier picture.
C4_Witness ==
  /\ pc = "idle" /\ ret.op = "setSourceImage" /\ ret.result = "false"
  /\ \E t \in TileIds : IsLoaded(tiles[t])

\* C5: between calls memoryUsage() is at most the configured maximum, and right
\* after a getTile that ran the eviction pass it is at most max/2 plus one tile.
C5_MemoryWithinBudget ==
  /\ pc = "idle" => currentMemoryUsage <= MaxMemory
  /\ GetTileReturned /\ ret.evicted # <<>> =>
       currentMemoryUsage <= MaxMemory \div 2 + TileSizeBytes(sourceImage)

\* C5 witness: a getTile has evicted entries and left some in the map.
C5_Witness ==
  /\ GetTileReturned /\ ret.evicted # <<>>
  /\ DOMAIN cache # {}
  /\ currentMemoryUsage > 0

\* C6: an entry removed by the eviction pass has the least lastAccess of the
\* entries in the map at that moment.
C6_EvictsOldest ==
  [][\A r \in DOMAIN cache \ DOMAIN cache' :
       pc = "evict" => \A s \in DOMAIN cache : cache[r].lastAccess <= cache[s].lastAccess]_vars

\* C6 witness: the pass has evicted one of three entries with distinct
\* lastAccess times; the two later ones remain.
C6_Witness ==
  /\ pc = "evict" /\ Len(ret.evicted) = 1
  /\ {cache[k].lastAccess : k \in DOMAIN cache} = {MaxClock - 1, MaxClock}
  /\ Cardinality(DOMAIN cache) = 2

\* C7: a completion of a job that was queued or running when clear() ran is
\* never applied to a tile.
C7_NoStaleCompletionLoads ==
  \A t \in TileIds : \A i \in DOMAIN loadedBy[t] : ~loadedBy[t][i].stale

\* C8: a worker holds no mutex while it runs the crop/resample part of a job:
\* a worker that owns queueMutex is at the top of its loop, one that owns
\* completedTasksMutex is at its push, and none owns cacheMutex.
C8_NoMutexHeldWhileJobRuns ==
  \A w \in Workers :
    /\ queueMutex = w => wpc[w] = "locked"
    /\ completedTasksMutex = w => wpc[w] = "push"
    /\ cacheMutex # w
    /\ wpc[w] \in {"dims", "crop"} =>
         queueMutex # w /\ completedTasksMutex # w /\ cacheMutex # w

\* C8 witness: getTile has returned a stub while a worker is cropping for it.
C8_Witness ==
  /\ GetTileReturned
  /\ \E w \in Workers : wpc[w] = "crop" /\ wjob[w] = ret.tile
  /\ ~IsLoaded(tiles[ret.tile])

\* The source rectangle of key k does not meet picture m.
Disjoint(k, m) ==
  LET e == TileSize * Pow2(k.level)
  IN \/ MatEmpty(m)
     \/ k.x * e >= m.cols \/ k.y * e >= m.rows
     \/ (k.x + 1) * e <= 0 \/ (k.y + 1) * e <= 0

\* C9: a loaded tile whose source rectangle meets no picture of the run is
\* zero-filled.
C9_OutOfBoundsTileIsZero ==
  \A t \in TileIds :
    IsLoaded(tiles[t]) /\ (\A p \in scn.paths : Disjoint(tiles[t].key, Decode(p))) =>
      tiles[t].imageData.pix = Zeros(TileSize, EmptyMat).pix

\* The level-0 rectangle of key k lies partly inside picture m.
PartlyInside(k, m) ==
  /\ k.level = 0 /\ ~Disjoint(k, m)
  /\ (k.x + 1) * TileSize > m.cols \/ (k.y + 1) * TileSize > m.rows

\* The pixels of picture m under the level-0 rectangle of key k, zero outside m.
PaddedCrop(k, m) ==
  [j \in 1..TileSize |-> [i \in 1..TileSize |->
     LET x == k.x * TileSize + i
         y == k.y * TileSize + j
     IN IF x >= 1 /\ x <= m.cols /\ y >= 1 /\ y <= m.rows THEN m.pix[y][x] ELSE 0]]

\* C10: a loaded level-0 tile whose rectangle lies partly inside the picture
\* holds the picture's pixels unscaled where they overlap and zeros elsewhere.
C10_EdgeTileIsPadded ==
  \A t \in TileIds :
    IsLoaded(tiles[t]) /\ (\E p \in scn.paths : PartlyInside(tiles[t].key, Decode(p))) =>
      \E p \in scn.paths :
        /\ ~Disjoint(tiles[t].key, Decode(p))
        /\ tiles[t].imageData.pix = PaddedCrop(tiles[t].key, Decode(p))

\* The level-0 rectangle of key k lies entirely inside picture m.
FullyInside(k, m) ==
  /\ k.level = 0 /\ k.x >= 0 /\ k.y >= 0
  /\ (k.x + 1) * TileSize <= m.cols /\ (k.y + 1) * TileSize <= m.rows

\* C11: a loaded tile of the map whose level-0 rectangle lies entirely inside
\* the source holds exactly the source's pixels under that rectangle.
C11_Level0RoundTrip ==
  \A k \in DOMAIN cache :
    IsLoaded(tiles[cache[k].tile]) /\ FullyInside(k, sourceImage) =>
      tiles[cache[k].tile].imageData =
        Crop(sourceImage, Rect(k.x * TileSize, k.y * TileSize, TileSize, TileSize))

\* C12: every loaded tile is TileSize x TileSize pixels.
C12_LoadedTileIsEdgeByEdge ==
  \A t \in TileIds :
    IsLoaded(tiles[t]) =>
      /\ tiles[t].imageData.cols = TileSize /\ tiles[t].imageData.rows = TileSize
      /\ DOMAIN tiles[t].imageData.pix = 1..TileSize
      /\ \A y \in 1..TileSize : DOMAIN tiles[t].imageData.pix[y] = 1..TileSize

\* C12 witness: a level-1 tile, whose source rectangle was clipped at the
\* picture's edges, and a level-0 tile clipped at the right edge are both loaded.
C12_Witness ==
  /\ \E t \in TileIds : IsLoaded(tiles[t]) /\ tiles[t].key.level = 1
  /\ \E t \in TileIds : IsLoaded(tiles[t]) /\ PartlyInside(tiles[t].key, sourceImage)

\* C13: when clear() has returned, tileCount() and memoryUsage() are 0, the
\* completion queue holds none of the completions that were queued when the
\* call started, and the source image and sourceSize() are as before the call.
C13_ClearEmptiesEverything ==
  pc = "idle" /\ ret.op = "clear" =>
    /\ TileCountValue = 0
    /\ MemoryUsageValue = 0
    /\ \A i \in DOMAIN completedTasks : completedTasks[i].job \notin ret.queued
    /\ sourceImage = ret.source
    /\ SourceSizeValue = IF MatEmpty(ret.source) THEN <<0, 0>>
                                                  ELSE <<ret.source.cols, ret.source.rows>>

\* C13 without the queue: what clear() does under cacheMutex.
C13_ClearEmptiesMapAndCounter ==
  pc = "idle" /\ ret.op = "clear" =>
    /\ TileCountValue = 0
    /\ MemoryUsageValue = 0
    /\ sourceImage = ret.source

\* A step in which a getTile call drains a non-empty completion queue.
DrainStep ==
  /\ pc = "idle" /\ pc' \in {"idle", "enqueue"}
  /\ ret'.op = "getTile"
  /\ completedTasks # <<>> /\ completedTasks' = <<>>

\* The tiles the queued completions find through the map.
DrainTargets ==
  {cache[completedTasks[i].key].tile :
     i \in {j \in DOMAIN completedTasks : completedTasks[j].key \in DOMAIN cache}}

\* C14: a drained completion whose key is not in the map does nothing: the call
\* goes on to return a Tile, no entry is removed or changed in tile or size, the
\* counter is as before, and every tile that no completion finds through the
\* map keeps its pixels (so its loaded state).
C14_CompletionForAbsentKeyIsNoOp ==
  [][DrainStep =>
       /\ ret'.tile \in 1..Len(tiles')
       /\ DOMAIN cache \subseteq DOMAIN cache'
       /\ ret'.hit => DOMAIN cache' = DOMAIN cache
       /\ \A k \in DOMAIN cache :
            cache'[k].tile = cache[k].tile /\ cache'[k].size = cache[k].size
       /\ currentMemoryUsage' = currentMemoryUsage
       /\ \A t \in TileIds \ DrainTargets :
            tiles'[t] = tiles[t] /\ loadedBy'[t] = loadedBy[t]]_vars

\* C14 witness: a getTile has drained a completion whose key was not in the
\* map; the tile of that job is still not loaded.
C14_Witness ==
  /\ GetTileReturned
  /\ \E j \in ret.dropped : ~IsLoaded(tiles[j]) /\ tiles[j].key \notin DOMAIN cache

\* C16: when setSourceImage has returned success, the map is empty (no entry
\* made under the previous source is left), memoryUsage() is 0 and sourceSize()
\* is the size of the picture just decoded.
C16_SetSourceStartsEmpty ==
  pc = "idle" /\ ret.op = "setSourceImage" /\ ret.result = "true" =>
    /\ TileCountValue = 0
    /\ MemoryUsageValue = 0
    /\ sourceImage = Decode(ret.path)
    /\ SourceSizeValue = <<Decode(ret.path).cols, Decode(ret.path).rows>>

\* C16 witness: setSourceImage has succeeded on a cache that held a loaded
\* tile of another picture.
C16_Witness ==
  /\ pc = "idle" /\ ret.op = "setSourceImage" /\ ret.result = "true"
  /\ \E t \in TileIds :
       /\ IsLoaded(tiles[t])
       /\ tiles[t].imageData.cn # sourceImage.cn

\* What C20 asks of one step.
EvictionStepOk ==
  /\ pc = "evict" /\ DOMAIN cache' # DOMAIN cache =>
       /\ currentMemoryUsage > MaxMemory \div 2
       /\ Cardinality(DOMAIN cache \ DOMAIN cache') = 1
       /\ DOMAIN cache' \subseteq DOMAIN cache
  /\ pc # "evict" /\ pc' = "evict" =>
       /\ pc = "enqueue"
       /\ currentMemoryUsage' > MaxMemory
       /\ currentMemoryUsage' = currentMemoryUsage + cache[arg].size
  /\ pc = "evict" /\ pc' # "evict" =>
       currentMemoryUsage <= MaxMemory \div 2 \/ DOMAIN cache = {}

\* C20: an entry leaves the map in an eviction pass only while the counter is
\* above max/2, one entry per step; the pass starts only from an insert that
\* took the counter above the maximum; a hit evicts nothing; and when the pass
\* ends the counter is at most max/2 or the map is empty.
C20_EvictionOnlyAboveHalf ==
  /\ [][EvictionStepOk]_vars
  /\ [](ret.op = "getTile" /\ ret.hit => ret.evicted = <<>>)
  /\ [](ret.op = "getTile" /\ ret.evicted # <<>> /\ pc = "idle" =>
          currentMemoryUsage <= MaxMemory \div 2)

\* C20 witness: a pass has just stopped with an entry left in the map, the
\* counter at max/2 exactly.
C20_Witness ==
  /\ pc = "evict" /\ ~EvictCondition
  /\ ret.evicted # <<>>
  /\ DOMAIN cache # {}
  /\ 2 * currentMemoryUsage = MaxMemory

\* Tile t is the tile of an entry of the map.
InMap(t) == \E k \in DOMAIN cache : cache[k].tile = t

\* Stub t is in the map and a source is set.
StubPending(t) == t \in TileIds /\ InMap(t) /\ ~MatEmpty(sourceImage)

\* Stub t is loaded, or its entry has left the map.
StubSettled(t) == ~InMap(t) \/ IsLoaded(tiles[t])

\* C15: under FairSpec, a stub that is in the map with a source set is
\* eventually loaded, unless its entry leaves the map first.
C15_StubEventuallyLoaded ==
  \A t \in 1..(MaxTiles + 1) : StubPending(t) ~> StubSettled(t)

\* What C17 asks of one step of a stopped pool: nothing joins the work queue,
\* no handle is handed out, and a call that returns reports "pool stopped".
StoppedPoolStepOk ==
  stop =>
    /\ Len(tasks') <= Len(tasks)
    /\ \A i \in DOMAIN tasks' : \E j \in DOMAIN tasks : tasks'[i] = tasks[j]
    /\ Len(fut') = Len(fut)
    /\ ret' # ret => ret'.op = "enqueue" /\ ret'.result = "pool stopped"

\* C17: enqueue on a pool whose stop flag is set fails with "pool stopped" and
\* adds nothing to the work queue; a task that was accepted is queued, held by
\* a worker or finished, never dropped.
C17_EnqueueAfterStopFails ==
  /\ [][StoppedPoolStepOk]_vars
  /\ [](\A j \in DOMAIN fut :
          fut[j] = "pending" =>
            (\E i \in DOMAIN tasks : tasks[i] = j) \/ (\E w \in Workers : wjob[w] = j))

\* C17 witness: an enqueue has failed with "pool stopped" while the destructor
\* waits for workers and a task accepted earlier is still queued.
C17_Witness ==
  /\ stop /\ pc = "dtor_join"
  /\ ret.op = "enqueue" /\ ret.result = "pool stopped"
  /\ tasks # <<>>

\* What the first part of C18 asks of one step: a worker that holds the queue
\* mutex with stop set takes no task.
NoPopAfterStop ==
  \A w \in Workers : stop /\ wpc[w] = "locked" => wjob'[w] = wjob[w]

\* C18 (last two parts): a worker that has returned holds no task (the task it
\* popped was run to its end), and the destructor returns only when every
\* worker has returned.
C18_JoinAfterWorkersFinish ==
  /\ \A w \in Workers : wpc[w] = "exited" => wjob[w] = Null
  /\ pc = "destroyed" => \A w \in Workers : wpc[w] = "exited"

\* C18: once a worker observes stop it takes no further task from the queue;
\* a task already popped is finished before the worker returns; destruction
\* returns only after every worker has returned.
C18_ShutdownStartsNoTask ==
  /\ [][NoPopAfterStop]_vars
  /\ []C18_JoinAfterWorkersFinish

\* Rectangle r and picture m have no pixel in common.
RectMisses(r, m) ==
  \/ MatEmpty(m)
  \/ r.w <= 0 \/ r.h <= 0
  \/ r.x >= m.cols \/ r.y >= m.rows
  \/ r.x + r.w <= 0 \/ r.y + r.h <= 0

\* C19: after loadFromMat(source, r) the tile is loaded; it is all zeros,
\* edge x edge, when r misses the source; otherwise it holds the part of the
\* source under r, pixel for pixel when that part is edge x edge and resampled
\* to edge x edge when it is not.
C19_LoadFromMatClipsOrZeroes ==
  ret.op = "loadFromMat" =>
    LET img == tiles[1].imageData
        x1 == Max(arg.x, 0)
        y1 == Max(arg.y, 0)
        w == Min(arg.x + arg.w, sourceImage.cols) - x1
        h == Min(arg.y + arg.h, sourceImage.rows) - y1
    IN /\ IsLoaded(tiles[1])
       /\ img.cols = TileSize /\ img.rows = TileSize
       /\ IF RectMisses(arg, sourceImage)
            THEN \A y, x \in 1..TileSize : img.pix[y][x] = 0
            ELSE IF w = TileSize /\ h = TileSize
                   THEN \A y, x \in 1..TileSize :
                          img.pix[y][x] = sourceImage.pix[y1 + y][x1 + x]
                   ELSE img.pix = Resize(Crop(sourceImage, Rect(x1, y1, w, h)), TileSize).pix

\* C19 witness: a rectangle to the right of the picture has been loaded, and
\* the tile is all zeros.
C19_Witness ==
  /\ ret.op = "loadFromMat"
  /\ ~MatEmpty(sourceImage)
  /\ arg.w > 0 /\ arg.h > 0 /\ arg.x >= sourceImage.cols
  /\ \A y, x \in 1..TileSize : tiles[1].imageData.pix[y][x] = 0

\* C21: a Tile's pixel buffer is written at most once, and a loaded Tile stays
\* loaded with the same pixels.
C21_TilePopulatedOnce ==
  /\ [](\A t \in TileIds : Len(loadedBy[t]) <= 1)
  /\ [][\A t \in TileIds : IsLoaded(tiles[t]) => tiles'[t] = tiles[t]]_vars

\* The unfinished loads of key k: jobs queued or running, and completions
\* waiting in the completion queue.
UnfinishedLoads(k) ==
  Cardinality({i \in DOMAIN tasks : tiles[tasks[i]].key = k})
    + Cardinality({w \in Workers : wjob[w] # Null /\ tiles[wjob[w]].key = k})
    + Cardinality({i \in DOMAIN completedTasks : completedTasks[i].key = k})

\* C22: there is at most one unfinished load for any key.
C22_NoDuplicateLoads ==
  \A t \in TileIds : UnfinishedLoads(tiles[t].key) <= 1

\* A step taken by a pool thread (the consumer's steps that change wpc also
\* move pc).
WorkerStepTaken == wpc' # wpc /\ pc' = pc

\* C23: a step of a pool thread leaves every Tile, the map and the memory
\* counter as they are; a Tile's pixel buffer changes only in a step of a
\* getTile call on the consumer's thread.
C23_WorkersWriteNoCacheState ==
  [][/\ WorkerStepTaken =>
          /\ tiles' = tiles
          /\ cache' = cache
          /\ currentMemoryUsage' = currentMemoryUsage
     /\ (\E t \in TileIds : tiles'[t] # tiles[t]) =>
          pc = "idle" /\ ret'.op = "getTile" /\ wpc' = wpc]_vars

\* C23 witness: both workers have finished a job and gone back to their loop;
\* the two stubs are in the map, still not loaded, their completions queued.
C23_Witness ==
  /\ Len(completedTasks) = 2
  /\ \A i \in DOMAIN completedTasks :
       /\ completedTasks[i].key \in DOMAIN cache
       /\ cache[completedTasks[i].key].tile = completedTasks[i].job
       /\ ~IsLoaded(tiles[completedTasks[i].job])
  /\ \A w \in Workers : wjob[w] = Null

\* C24: no pool thread is about to read the source buffer (its dimensions or
\* its pixels) while setSourceImage is about to replace it.
C24_NoReadWhileSourceReplaced ==
  ~(pc = "ss_decode" /\ \E w \in Workers : wpc[w] \in {"dims", "crop"})

\* A step in which the consumer's thread accesses the completion queue: a
\* drain, clear(), or the clear() inside setSourceImage.
ConsumerTouchesQueue ==
  /\ pc = "idle"
  /\ \/ DrainStep
     \/ pc' = "ss_decode"
     \/ ret'.op = "clear" /\ (ret' # ret \/ cache' # cache)

\* C25: the consumer accesses the completion queue only while no worker holds
\* the queue's mutex, and a worker pushes only while it holds it.
C25_QueueOnlyUnderItsMutex ==
  [][/\ ConsumerTouchesQueue => completedTasksMutex = NoOwner
     /\ \A w \in Workers :
          wpc[w] = "push" /\ wpc'[w] # "push" => completedTasksMutex = w]_vars

\* What C26 asks of one step: a worker that takes a task takes the one at the
\* front of the queue, which leaves the queue.
TakesFront ==
  \A w \in Workers :
    wjob'[w] # wjob[w] /\ wjob'[w] # Null =>
      /\ tasks # <<>> /\ wjob'[w] = Head(tasks) /\ tasks' = Tail(tasks)
      /\ fut[wjob'[w]] = "pending"

\* C26: tasks are taken from the front of the queue, which holds them in the
\* order they were accepted (task numbers ascending, every queued task later
\* than every task taken); no task is held by two workers or queued twice; a
\* task that has run is neither queued nor held again; and an accepted task
\* that has not run is queued or held.
C26_FifoExactlyOnce ==
  /\ [][TakesFront]_vars
  /\ [](\A i, j \in DOMAIN tasks : i < j => tasks[i] < tasks[j])
  /\ [](\A w \in Workers : \A i \in DOMAIN tasks : wjob[w] < tasks[i])
  /\ [](\A v, w \in Workers : wjob[v] # Null /\ wjob[v] = wjob[w] => v = w)
  /\ [](\A j \in DOMAIN fut :
          IF fut[j] = "pending"
            THEN Cardinality({i \in DOMAIN tasks : tasks[i] = j})
                   + Cardinality({w \in Workers : wjob[w] = j}) = 1
            ELSE (\A i \in DOMAIN tasks : tasks[i] # j) /\ (\A w \in Workers : wjob[w] # j))

\* C26 witness: the first two tasks are running in two workers and the third
\* waits in the queue.
C26_Witness ==
  /\ Len(fut) = MaxJobs
  /\ \E v, w \in Workers : wjob[v] = 1 /\ wjob[w] = 2
  /\ tasks = <<MaxJobs>>

\* Task j has been accepted by enqueue.
TaskAccepted(j) == j \in DOMAIN fut

\* Task j has been taken by a worker.
TaskStarted(j) ==
  j \in DOMAIN fut /\ (fut[j] # "pending" \/ \E w \in Workers : wjob[w] = j)

\* What the first part of C27 asks of one step: a worker starts to wait only
\* with the queue empty and stop unset.
WaitsOnlyWhenIdle ==
  \A w \in Workers :
    wpc[w] # "waiting" /\ wpc'[w] = "waiting" => tasks = <<>> /\ ~stop

\* C27: workers start to wait only with the queue empty and stop unset, and
\* under FairPoolSpec every accepted task is eventually taken by a worker.
C27_NoLostWakeup ==
  /\ [][WaitsOnlyWhenIdle]_vars
  /\ \A j \in 1..MaxJobs : TaskAccepted(j) ~> TaskStarted(j)

\* C27 witness: a task has been pushed while every worker waits, and the
\* notify_one of that enqueue is still to come.
C27_Witness ==
  /\ arg # Null
  /\ tasks # <<>>
  /\ \A w \in Workers : wpc[w] = "waiting"
  /\ Cardinality(Workers) = NumWorkers

\* What C28 asks of one step: when a job ends in an exception its worker is
\* back at the top of its loop, holding nothing.
ThrowKeepsWorker ==
  \A w \in Workers :
    wjob[w] # Null /\ fut'[wjob[w]] = "exception" /\ fut[wjob[w]] # "exception" =>
      wpc'[w] = "idle" /\ wjob'[w] = Null /\ completedTasks' = completedTasks

\* C28: a job that throws leaves the exception in its future, posts no
\* completion and loads no tile, and its worker goes on with its loop.
C28_ThrowingJobKeepsWorker ==
  /\ [][ThrowKeepsWorker]_vars
  /\ [](\A j \in DOMAIN fut :
          fut[j] = "exception" =>
            /\ \A i \in DOMAIN completedTasks : completedTasks[i].job # j
            /\ \A t \in TileIds : \A i \in DOMAIN loadedBy[t] : loadedBy[t][i].job # j)
  /\ [](\A w \in Workers : wpc[w] # "exited")

\* C28 witness: the only worker of the pool runs the second job after the
\* first ended in an exception.
C28_Witness ==
  /\ Cardinality(Workers) = 1
  /\ Len(fut) >= 2 /\ fut[1] = "exception"
  /\ \E w \in Workers : wjob[w] = 2 /\ wpc[w] = "crop"

\* What C29 asks of one step: a Tile changes only in a step of getTile, and the
\* completion queue shrinks only in a step of getTile, clear() or
\* setSourceImage.
LoadsOnlyInGetTile ==
  /\ (\E t \in TileIds : tiles'[t] # tiles[t]) =>
       pc = "idle" /\ pc' \in {"idle", "enqueue"} /\ ret'.op = "getTile"
  /\ Len(completedTasks') < Len(completedTasks) =>
       /\ pc = "idle"
       /\ DrainStep \/ ret'.op = "clear" \/ pc' = "ss_decode"

\* C29: isLoaded() of a Tile changes only during a getTile call; tileCount(),
\* memoryUsage(), sourceSize() and worker steps apply no completion.
C29_VisibleOnlyInDrain == [][LoadsOnlyInGetTile]_vars

\* C29 witness: the consumer is between calls (tileCount(), memoryUsage() and
\* sourceSize() can run), the completions of two stubs of the map are queued,
\* and the stub the last getTile returned is still not loaded.
C29_Witness ==
  /\ GetTileReturned /\ cacheMutex = NoOwner
  /\ Len(completedTasks) = 2
  /\ \E i \in DOMAIN completedTasks :
       /\ completedTasks[i].job = ret.tile
       /\ ret.key \in DOMAIN cache /\ cache[ret.key].tile = ret.tile
  /\ ~IsLoaded(tiles[ret.tile])
  /\ \E w \in Workers : wpc[w] = "waiting"

\* A step that is a getTile hit.
HitStep ==
  /\ pc = "idle" /\ pc' = "idle"
  /\ ret'.op = "getTile" /\ ret'.hit
  /\ wpc' = wpc

\* What C30 asks of a hit.
HitChangesOnlyAccessTime ==
  HitStep =>
    /\ DOMAIN cache' = DOMAIN cache
    /\ currentMemoryUsage' = currentMemoryUsage
    /\ \A k \in DOMAIN cache :
         /\ cache'[k].size = cache[k].size /\ cache'[k].tile = cache[k].tile
         /\ k # ret'.key => cache'[k].lastAccess = cache[k].lastAccess
    /\ cache'[ret'.key].lastAccess >= cache[ret'.key].lastAccess
    /\ tasks' = tasks /\ fut' = fut
    /\ ret'.evicted = <<>>

\* C30: a getTile hit changes only the last-access time of the entry it finds
\* (and the tiles its drain loads): the keys of the map, the counter, every
\* size and every other last-access time stay, no job is enqueued and nothing
\* is evicted.
C30_HitOnlyRefreshesEntry == [][HitChangesOnlyAccessTime]_vars

\* C30 witness: a hit has returned with two entries in the map, the one it
\* found now later than the other, and the counter above max/2.
C30_Witness ==
  /\ GetTileReturned /\ ret.hit
  /\ \E k \in DOMAIN cache : cache[k].lastAccess < cache[ret.key].lastAccess
  /\ 2 * currentMemoryUsage > MaxMemory

\* The jobs, queued or running, whose key has no entry in the map.
OrphanJobs == {j \in InFlight : tiles[j].key \notin DOMAIN cache}

\* C31: the jobs, queued or running, whose key is no longer in the map are at
\* most as many as the pool has threads.
C31_WastedWorkWithinPoolSize ==
  Cardinality(OrphanJobs) <= Cardinality(Workers)

\* The sum of the recorded sizes of the entries of c with keys in S.
RECURSIVE SizeSum(_, _)
SizeSum(c, S) ==
  IF S = {} THEN 0
  ELSE LET k == CHOOSE j \in S : TRUE IN c[k].size + SizeSum(c, S \ {k})

\* What C32 asks of one step: an entry keeps its recorded size while it is in
\* the map; the counter grows by the new entry's recorded size on insert, drops
\* by the erased entry's recorded size on eviction, and changes in no other
\* step but clear().
AccountingStepOk ==
  /\ \A k \in DOMAIN cache \cap DOMAIN cache' : cache'[k].size = cache[k].size
  /\ pc = "enqueue" /\ pc' # "enqueue" =>
       /\ arg \in DOMAIN cache
       /\ currentMemoryUsage' = currentMemoryUsage + cache[arg].size
  /\ pc = "evict" /\ DOMAIN cache' # DOMAIN cache =>
       \E k \in DOMAIN cache :
         /\ DOMAIN cache' = DOMAIN cache \ {k}
         /\ currentMemoryUsage' = currentMemoryUsage - cache[k].size
  /\ currentMemoryUsage' # currentMemoryUsage /\ pc \notin {"enqueue", "evict"} =>
       currentMemoryUsage' = 0 /\ cache' = EmptyMap

\* C32: whenever cacheMutex is free, memoryUsage() is the sum of the recorded
\* sizes of the entries of the map and tileCount() is the number of its keys;
\* the recorded size of an entry is fixed, it is what an insert adds and an
\* eviction subtracts, and the counter never goes below 0.
C32_AccountingInvariant ==
  /\ [](cacheMutex = NoOwner =>
          /\ MemoryUsageValue = SizeSum(cache, DOMAIN cache)
          /\ TileCountValue = Cardinality(DOMAIN cache))
  /\ [](currentMemoryUsage >= 0)
  /\ [][AccountingStepOk]_vars

\* C32 witness: a getTile has inserted its entry and evicted two others; the
\* mutex is free again, and one entry is left with the counter at its size.
C32_Witness ==
  /\ GetTileReturned /\ cacheMutex = NoOwner
  /\ Len(ret.evicted) = 2
  /\ Cardinality(DOMAIN cache) = 1
  /\ currentMemoryUsage > 0

\* C33: the eviction pass of a getTile miss leaves the entry that miss made in
\* the map, so the tile the miss returns is the tile of its key's entry when
\* the call returns.
C33_MissLeavesItsEntryInMap ==
  /\ pc = "evict" => arg \in DOMAIN cache
  /\ GetTileReturned /\ ~ret.hit =>
       ret.key \in DOMAIN cache /\ cache[ret.key].tile = ret.tile

\* Tile t holds what a job for its key computes from picture src.
LoadedFrom(t, src) ==
  LET k == tiles[t].key
      roi == JobRect(k, src.cols, src.rows)
  IN /\ roi.w > 0 /\ roi.h > 0
     /\ RoiValid(src, roi)
     /\ LET data == JobData(k, src, roi)
        IN tiles[t].imageData = LoadFromMat(data, Rect(0, 0, data.cols, data.rows))

\* C34: a tile is populated only by the completion of its own job (never by
\* one enqueued for an earlier entry of its key), and a loaded tile of the map,
\* which was made under the source now installed, holds pixels computed from
\* that source.
C34_NoCrossSourceContamination ==
  /\ \A t \in TileIds : \A i \in DOMAIN loadedBy[t] : loadedBy[t][i].job = t
  /\ \A k \in DOMAIN cache :
       IsLoaded(tiles[cache[k].tile]) => LoadedFrom(cache[k].tile, sourceImage)

\* What the first part of C35 asks of one step: a pool thread that takes a
\* step of a job does not read sourceImage (its dimensions or its pixels) after
\* that member is destroyed, and does not lock completedTasksMutex or push to
\* completedTasks after those are destroyed.
NoUseAfterTeardown ==
  \A w \in Workers :
    wpc'[w] # wpc[w] =>
      /\ ~(wpc[w] \in {"dims", "crop"} /\ SourceDestroyed)
      /\ ~(wpc[w] \in {"post", "push"} /\ QueueDestroyed)

\* C35 (first part): no worker touches a member that is already destroyed.
C35_NoWorkerTouchesDeadMember == [][NoUseAfterTeardown]_vars

\* C35: during destruction no worker reads the source buffer or locks or pushes
\* to the completion queue after that member is destroyed, and every worker has
\* returned before the completion queue, its mutex and the source are destroyed.
C35_SafeDestruction ==
  /\ [][NoUseAfterTeardown]_vars
  /\ [](QueueDestroyed => \A w \in Workers : wpc[w] = "exited")

\* The lock order of a state: a pool thread never owns cacheMutex and owns at
\* most one mutex, the owner of queueMutex is at the top of its loop and the
\* owner of completedTasksMutex at its push (neither is about to take another
\* mutex); the consumer owns cacheMutex only inside a getTile miss, where the
\* one mutex it goes on to take is queueMutex, and owns nothing between calls.
LockOrderOk ==
  /\ \A w \in Workers :
       /\ cacheMutex # w
       /\ ~(queueMutex = w /\ completedTasksMutex = w)
       /\ queueMutex = w => wpc[w] = "locked"
       /\ completedTasksMutex = w => wpc[w] = "push"
  /\ queueMutex # Consumer /\ completedTasksMutex # Consumer
  /\ cacheMutex = Consumer => pc \in {"enqueue", "evict"}
  /\ pc = "idle" => cacheMutex = NoOwner

\* What C36 asks of one step: cacheMutex is taken by the consumer at the start
\* of a call, when it owns no mutex, and a pool thread takes a mutex only when
\* it owns none.
AcquiresInOrder ==
  /\ cacheMutex = NoOwner /\ cacheMutex' # NoOwner =>
       cacheMutex' = Consumer /\ pc = "idle"
  /\ \A w \in Workers :
       (queueMutex # w /\ queueMutex' = w) \/ (completedTasksMutex # w /\ completedTasksMutex' = w) =>
         queueMutex # w /\ completedTasksMutex # w /\ cacheMutex # w

\* Pool thread w is at position p.
WorkerAt(w, p) == w \in Workers /\ wpc[w] = p

\* C36: on the read/insert path the mutexes are taken in one order (cacheMutex,
\* then queueMutex, by the consumer only; every other acquisition by a thread
\* that owns nothing), and under FairReadInsertSpec no thread waits forever
\* for a mutex: a getTile that waits for queueMutex with cacheMutex held
\* returns, a pool thread that wants queueMutex or completedTasksMutex gets
\* it, and every mutex that is owned is released.
C36_ReadInsertPathDeadlockFree ==
  /\ []LockOrderOk
  /\ [][AcquiresInOrder]_vars
  /\ (pc # "idle") ~> (pc = "idle")
  /\ (cacheMutex # NoOwner) ~> (cacheMutex = NoOwner)
  /\ (queueMutex # NoOwner) ~> (queueMutex = NoOwner)
  /\ (completedTasksMutex # NoOwner) ~> (completedTasksMutex = NoOwner)
  /\ \A w \in 1..NumWorkers : WorkerAt(w, "idle") ~> WorkerAt(w, "locked")
  /\ \A w \in 1..NumWorkers : WorkerAt(w, "post") ~> WorkerAt(w, "push")

\* C36 witness: a getTile miss holds cacheMutex and is about to take
\* queueMutex, which one pool thread owns, while another pool thread owns
\* completedTasksMutex.
C36_Witness ==
  /\ pc = "enqueue" /\ cacheMutex = Consumer
  /\ \E w \in Workers : queueMutex = w
  /\ \E w \in Workers : completedTasksMutex = w

====
